---- MODULE Spec2Model ----
(***************************************************************************)
(* Model of bot.py: the leaderboard fetcher (fetch_leaderboard), the       *)
(* formatter (format_leaderboard_message), the publisher                   *)
(* (send_leaderboard), its two triggers (leaderboard_command and           *)
(* post_leaderboard_job) and the startup routine (main).                   *)
(***************************************************************************)
EXTENDS Integers, Sequences, FiniteSets, Bags, TLC

VARIABLES
    BOT_TOKEN,   \* os.environ.get('BOT_TOKEN'), read once at import
    CHAT_ID,     \* os.environ.get('CHAT_ID'), read once at import
    mainpc,      \* position of main(): "init", "refused" or "serving"
    handlers,    \* command names registered with application.add_handler
    job,         \* the repeating job of the job queue, or NoJob
    now,         \* seconds elapsed since the process started
    fireTimes,   \* the times at which post_leaderboard_job has run
    cycles,      \* bag of the invocations of send_leaderboard in progress
    mainlog,     \* what main() has logged
    callArg,     \* argument of a direct call of a pure function
    callRet,     \* its outcome
    callPc       \* "ready" before the call, "returned" or "raised" after

vars == <<BOT_TOKEN, CHAT_ID, mainpc, handlers, job, now, fireTimes, cycles,
          mainlog, callArg, callRet, callPc>>

botVars == <<BOT_TOKEN, CHAT_ID, mainpc, handlers, job, fireTimes, cycles, mainlog>>

(***************************************************************************)
(* Bounds of the model.                                                    *)
(***************************************************************************)
MaxLen == 2        \* longest topScores list of a direct call
MaxCycles == 2     \* publish cycles in progress at one time
MaxFirings == 2    \* timer firings after which the clock stops
TickStep == 1800   \* the clock's step between two due times

(***************************************************************************)
(* Python values.  Scalars are records of one shape; None, bool, int and   *)
(* str differ by tag.  A JSON list of entries carries its items.           *)
(***************************************************************************)
PyNone == [tag |-> "None", i |-> 0, s |-> ""]
PyBool(b) == [tag |-> "bool", i |-> IF b THEN 1 ELSE 0, s |-> ""]
PyInt(n) == [tag |-> "int", i |-> n, s |-> ""]
PyStr(str) == [tag |-> "str", i |-> 0, s |-> str]
PyList(items) == [tag |-> "list", items |-> items]
NoneList == [tag |-> "None", items |-> <<>>]

\* Python's truth value of an object, as `if x`, `x and y`, `x or y` test it.
Truthy(v) ==
    CASE v.tag = "None" -> FALSE
      [] v.tag = "bool" -> v.i = 1
      [] v.tag = "int" -> v.i # 0
      [] v.tag = "str" -> v.s # ""
      [] v.tag = "list" -> Len(v.items) > 0
      [] v.tag = "dict" -> v.keys # {}

\* str(chat_id) of an integer chat id.
Str(n) == PyStr(ToString(n))

\* The outcome of a call: a returned value or a raised exception.
Return(v, lg) == [kind |-> "return", value |-> v, exc |-> "", log |-> lg]
Raise(e) == [kind |-> "raise", value |-> PyNone, exc |-> e, log |-> <<>>]

(***************************************************************************)
(* Score entries as the API's JSON carries them.                           *)
(***************************************************************************)
DictEntry(ks, gs, un) ==
    [tag |-> "dict", keys |-> ks,
     gameScore |-> IF "gameScore" \in ks THEN gs ELSE PyNone,
     xUsername |-> IF "xUsername" \in ks THEN un ELSE PyNone]
ScalarEntry == [tag |-> "int", keys |-> {}, gameScore |-> PyNone, xUsername |-> PyNone]

ScoreValues == {PyInt(500), PyInt(12345), PyInt(1000000)}
NameValues == {PyNone, PyStr(""), PyStr("alice")}

\* Entries of the shape the API documents: an integer gameScore and an
\* optional xUsername (missing, null or a string).
ValidEntries ==
    {DictEntry({"gameScore", "xUsername"}, g, u) : g \in ScoreValues, u \in NameValues}
    \cup {DictEntry({"gameScore"}, g, PyNone) : g \in ScoreValues}

\* Entries the fetcher passes on although the formatter cannot render them.
InvalidEntries ==
    { DictEntry({"xUsername"}, PyNone, PyStr("alice")),
      DictEntry({"gameScore", "xUsername"}, PyStr("n/a"), PyNone),
      DictEntry({"gameScore"}, PyNone, PyNone),
      ScalarEntry }

Entries == ValidEntries \cup InvalidEntries

SeqsUpTo(S, n) == UNION {[1..k -> S] : k \in 0..n}

(***************************************************************************)
(* MEDALS and the rank marker MEDALS.get(idx, default).                    *)
(***************************************************************************)
MEDALS == [k \in 1..5 |->
             CASE k = 1 -> "1st_place_medal"
               [] k = 2 -> "2nd_place_medal"
               [] k = 3 -> "3rd_place_medal"
               [] k = 4 -> "trophy"
               [] k = 5 -> "military_medal"]
MedalFor(idx) == IF idx \in DOMAIN MEDALS THEN MEDALS[idx] ELSE "military_medal"

(***************************************************************************)
(* The format specification ",": decimal digits grouped by thousands.      *)
(***************************************************************************)
DigitChars == <<"0", "1", "2", "3", "4", "5", "6", "7", "8", "9">>

RECURSIVE Digits(_)
Digits(n) == IF n < 10 THEN <<DigitChars[n + 1]>>
             ELSE Append(Digits(n \div 10), DigitChars[(n % 10) + 1])

RECURSIVE Group(_)
Group(d) == IF Len(d) <= 3 THEN d
            ELSE Group(SubSeq(d, 1, Len(d) - 3)) \o <<",">> \o SubSeq(d, Len(d) - 2, Len(d))

FormatComma(n) == IF n < 0 THEN <<"-">> \o Group(Digits(-n)) ELSE Group(Digits(n))

\* f"{value:,}" for a value read from JSON.
FormatSpecComma(v) ==
    CASE v.tag \in {"int", "bool"} -> Return(FormatComma(v.i), <<>>)
      [] v.tag = "str" -> Raise("ValueError")
      [] v.tag = "None" -> Raise("TypeError")

\* score['gameScore']
Subscript(score, key) ==
    IF score.tag # "dict" THEN Raise("TypeError")
    ELSE IF key \notin score.keys THEN Raise("KeyError")
    ELSE Return(score[key], <<>>)

\* score.get('xUsername')
EntryGet(score, key) == IF key \in score.keys THEN score[key] ELSE PyNone

\* Variant of Username that tests for the key instead of the value's truth.
Username_key_present(score) ==
    IF "xUsername" \in score.keys
    THEN <<"@", score.xUsername.s>>
    ELSE <<"Anonymous">>

\* f"@{score['xUsername']}" if score.get('xUsername') else "Anonymous"
Username(score) ==
    IF Truthy(EntryGet(score, "xUsername"))
    THEN <<"@", score.xUsername.s>>
    ELSE <<"Anonymous">>

HeaderLines == << [kind |-> "header"], [kind |-> "blank"] >>

\* Variant of EntryLines that numbers the entries as enumerate(scores) would.
EntryLines_zero_based(idx, game_score, username) ==
    << [kind |-> "rank", medal |-> MedalFor(idx - 1), idx |-> idx - 1,
        game_score |-> game_score],
       [kind |-> "name", username |-> username],
       [kind |-> "blank"] >>

\* The two lines and the blank line one entry adds to the message.
EntryLines(idx, game_score, username) ==
    << [kind |-> "rank", medal |-> MedalFor(idx), idx |-> idx, game_score |-> game_score],
       [kind |-> "name", username |-> username],
       [kind |-> "blank"] >>

\* The for loop of format_leaderboard_message from position idx on.
RECURSIVE format_loop(_, _, _)
format_loop(scores, idx, message) ==
    IF idx > Len(scores) THEN Return(message, <<>>)
    ELSE LET score == scores[idx]
             raw == Subscript(score, "gameScore")
         IN IF raw.kind = "raise" THEN raw
            ELSE LET game_score == FormatSpecComma(raw.value)
                 IN IF game_score.kind = "raise" THEN game_score
                    ELSE format_loop(scores, idx + 1,
                           message \o EntryLines(idx, game_score.value, Username(score)))

\* format_leaderboard_message(scores) called at time clock.
format_leaderboard_message(scores, clock) ==
    LET body == format_loop(scores, 1, HeaderLines)
    IN IF body.kind = "raise" THEN body
       ELSE Return(Append(body.value, [kind |-> "timestamp", utc |-> clock]), <<>>)

(***************************************************************************)
(* The HTTP exchange of fetch_leaderboard.                                 *)
(***************************************************************************)
\* A parsed JSON body: an object with optional success and topScores
\* members, or a value that is no object.
JsonObject(ks, success, topScores) ==
    [tag |-> "dict", keys |-> ks,
     success |-> IF "success" \in ks THEN success ELSE PyNone,
     topScores |-> IF "topScores" \in ks THEN topScores ELSE NoneList]
JsonArray == [tag |-> "list", keys |-> {}, success |-> PyNone, topScores |-> NoneList]

\* data.get(key)
DataGet(data, key) ==
    IF key \in data.keys THEN data[key]
    ELSE IF key = "topScores" THEN NoneList ELSE PyNone

Malformed == [kind |-> "malformed", data |-> JsonArray]
Json(data) == [kind |-> "json", data |-> data]

HttpResponse(status, body) == [net |-> "ok", status |-> status, body |-> body]
NetFailure(e) == [net |-> e, status |-> 0, body |-> Malformed]

SuccessValues == {PyBool(TRUE), PyBool(FALSE), PyNone}
Statuses == {200, 404, 500}
NetErrors == {"ClientConnectorError", "TimeoutError"}

\* The bodies a server can answer with, topScores drawn from `lists`.
Bodies(lists) ==
    {Malformed, Json(JsonArray)}
    \cup {Json(JsonObject(ks, sc, ts)) :
            ks \in SUBSET {"success", "topScores"},
            sc \in SuccessValues,
            ts \in {PyList(l) : l \in lists} \cup {NoneList}}

Responses(lists) ==
    {NetFailure(e) : e \in NetErrors}
    \cup {HttpResponse(st, b) : st \in Statuses, b \in Bodies(lists)}

\* await response.json()
ResponseJson(response) ==
    IF response.body.kind = "malformed" THEN Raise("JSONDecodeError")
    ELSE Return(response.body.data, <<>>)

\* Variant of fetch_try that does not look at the success flag.
fetch_try_unchecked(response) ==
    IF response.net # "ok" THEN Raise(response.net)
    ELSE IF response.status = 200
    THEN LET data == ResponseJson(response)
         IN IF data.kind = "raise" THEN data
            ELSE IF data.value.tag # "dict" THEN Raise("AttributeError")
            ELSE IF Truthy(DataGet(data.value, "topScores"))
            THEN Return(data.value.topScores, <<>>)
            ELSE [kind |-> "fallthrough", value |-> NoneList, exc |-> "", log |-> <<>>]
    ELSE [kind |-> "fallthrough", value |-> NoneList, exc |-> "",
          log |-> <<"API returned status">>]

\* The body of the try block of fetch_leaderboard: returns topScores, raises,
\* or falls through to the statement after the try ("fallthrough").
fetch_try(response) ==
    IF response.net # "ok" THEN Raise(response.net)
    ELSE IF response.status = 200
    THEN LET data == ResponseJson(response)
         IN IF data.kind = "raise" THEN data
            ELSE IF data.value.tag # "dict" THEN Raise("AttributeError")
            ELSE IF Truthy(DataGet(data.value, "success"))
                    /\ Truthy(DataGet(data.value, "topScores"))
            THEN Return(data.value.topScores, <<>>)
            ELSE [kind |-> "fallthrough", value |-> NoneList, exc |-> "", log |-> <<>>]
    ELSE [kind |-> "fallthrough", value |-> NoneList, exc |-> "",
          log |-> <<"API returned status">>]

\* fetch_leaderboard(): the try block, the except clause and `return None`.
fetch_leaderboard(response) ==
    LET t == fetch_try(response)
    IN CASE t.kind = "return" -> t
         [] t.kind = "raise" -> Return(NoneList, <<"Error fetching leaderboard">>)
         [] t.kind = "fallthrough" -> Return(NoneList, t.log)

(***************************************************************************)
(* Direct calls of the two functions, their arguments drawn from bounded   *)
(* sets.  The bot's own variables are left in their start-up state.        *)
(***************************************************************************)
NoJob == [scheduled |-> FALSE, interval |-> 0, first |-> 0, next_run |-> 0]

BotIdle ==
    /\ BOT_TOKEN = PyNone
    /\ CHAT_ID = PyNone
    /\ mainpc = "init"
    /\ handlers = {}
    /\ job = NoJob
    /\ fireTimes = <<>>
    /\ cycles = EmptyBag
    /\ mainlog = <<>>

NotCalled == [kind |-> "none", value |-> PyNone, exc |-> "", log |-> <<>>]

Snapshots == SeqsUpTo(Entries, MaxLen)

InitFetch ==
    /\ BotIdle
    /\ now = 0
    /\ callArg \in Responses(Snapshots)
    /\ callRet = NotCalled
    /\ callPc = "ready"

\* scores = await fetch_leaderboard(), the server answering with callArg.
CallFetch ==
    /\ callPc = "ready"
    /\ callRet' = fetch_leaderboard(callArg)
    /\ callPc' = IF callRet'.kind = "raise" THEN "raised" ELSE "returned"
    /\ UNCHANGED <<botVars, now, callArg>>

SpecFetch == InitFetch /\ [][CallFetch]_vars

InitFormat ==
    /\ BotIdle
    /\ now \in {0, 10, 3610}
    /\ callArg \in Snapshots \ {<<>>}
    /\ callRet = NotCalled
    /\ callPc = "ready"

\* message = format_leaderboard_message(scores) with scores = callArg.
CallFormat ==
    /\ callPc = "ready"
    /\ callRet' = format_leaderboard_message(callArg, now)
    /\ callPc' = IF callRet'.kind = "raise" THEN "raised" ELSE "returned"
    /\ UNCHANGED <<botVars, now, callArg>>

SpecFormat == InitFormat /\ [][CallFormat]_vars

(***************************************************************************)
(* The bot: start-up, the two triggers and the publish cycle.              *)
(***************************************************************************)
POST_INTERVAL == 3600
FIRST_DELAY == 10

\* Values the two environment variables can have when the process starts.
TokenValues == {PyNone, PyStr(""), PyStr("123:abc")}
ChatIdValues == {PyNone, PyStr(""), PyStr("-1001")}

\* Chats a /leaderboard command can come from (update.effective_chat.id).
Chats == {0, -1001}

\* Answers of the scoring API during a run.
ApiSnapshots ==
    { << DictEntry({"gameScore", "xUsername"}, PyInt(1000000), PyStr("alice")),
         DictEntry({"gameScore", "xUsername"}, PyInt(500), PyNone) >>,
      << DictEntry({"xUsername"}, PyNone, PyStr("alice")) >>,
      << DictEntry({"gameScore"}, PyInt(12345), PyNone), ScalarEntry >>,
      <<>> }
ApiResponses == Responses(ApiSnapshots)

\* Outcomes of context.bot.send_message: delivered, or an exception.
SendOutcomes == {"ok", "Forbidden", "RetryAfter"}

\* The fallback text of send_leaderboard (its leading cross mark left out).
ERROR_MESSAGE ==
    << [kind |-> "plain", text |-> "Could not fetch leaderboard data. Please try again later."] >>

SendCall(chat_id, text, parse_mode) ==
    [chat_id |-> chat_id, text |-> text, parse_mode |-> parse_mode]

\* The frame of an invocation of send_leaderboard before its first statement.
NewCycle ==
    [pc |-> "start", trigger |-> "", chat |-> 0, chat_id |-> PyNone,
     target_chat_id |-> PyNone, fetches |-> 0, scores |-> NoneList,
     calls |-> <<>>, send_result |-> "", exc |-> "", log |-> <<>>]

One(cy) == SetToBag({cy})
Replace(cy, next) == (cycles (-) One(cy)) (+) One(next)

\* target_chat_id = chat_id or CHAT_ID
ResolveTarget(chat_id) == IF Truthy(chat_id) THEN chat_id ELSE CHAT_ID

\* send_leaderboard(context, chat_id) up to its first suspension, the request
\* of fetch_leaderboard.
send_leaderboard_begin(trigger, chat, chat_id, lg) ==
    [NewCycle EXCEPT !.pc = "fetching", !.trigger = trigger, !.chat = chat,
                     !.chat_id = chat_id, !.target_chat_id = ResolveTarget(chat_id),
                     !.fetches = 1, !.log = lg]

\* Variant of send_leaderboard_fetched that ends without a message when the
\* fetch gave nothing.
send_leaderboard_fetched_silent(cy, fetched, clock) ==
    IF fetched.kind = "raise"
    THEN [cy EXCEPT !.pc = "raised", !.exc = fetched.exc]
    ELSE LET scores == fetched.value
         IN IF Truthy(scores)
            THEN LET message == format_leaderboard_message(scores.items, clock)
                 IN IF message.kind = "raise"
                    THEN [cy EXCEPT !.pc = "raised", !.scores = scores,
                                    !.exc = message.exc]
                    ELSE [cy EXCEPT !.pc = "sending", !.scores = scores,
                                    !.calls = Append(@, SendCall(cy.target_chat_id,
                                                 message.value, PyStr("HTML")))]
            ELSE [cy EXCEPT !.pc = "done", !.scores = scores, !.send_result = "ok"]

\* Variant of send_leaderboard_fetched that sends to a target kept in one
\* place for all invocations in progress.
send_leaderboard_fetched_shared_target(cy, fetched, clock) ==
    LET shared == (CHOOSE other \in BagToSet(cycles) : TRUE).target_chat_id
    IN IF fetched.kind = "raise"
       THEN [cy EXCEPT !.pc = "raised", !.exc = fetched.exc]
       ELSE LET scores == fetched.value
            IN IF Truthy(scores)
               THEN LET message == format_leaderboard_message(scores.items, clock)
                    IN IF message.kind = "raise"
                       THEN [cy EXCEPT !.pc = "raised", !.scores = scores,
                                       !.exc = message.exc]
                       ELSE [cy EXCEPT !.pc = "sending", !.scores = scores,
                                       !.calls = Append(@, SendCall(shared,
                                                    message.value, PyStr("HTML")))]
               ELSE [cy EXCEPT !.pc = "sending", !.scores = scores,
                               !.calls = Append(@, SendCall(shared, ERROR_MESSAGE, PyNone))]

\* send_leaderboard from the return of fetch_leaderboard to the suspension in
\* send_message, or to the exception that leaves the function.
send_leaderboard_fetched(cy, fetched, clock) ==
    IF fetched.kind = "raise"
    THEN [cy EXCEPT !.pc = "raised", !.exc = fetched.exc]
    ELSE LET scores == fetched.value
         IN IF Truthy(scores)
            THEN LET message == format_leaderboard_message(scores.items, clock)
                 IN IF message.kind = "raise"
                    THEN [cy EXCEPT !.pc = "raised", !.scores = scores,
                                    !.exc = message.exc]
                    ELSE [cy EXCEPT !.pc = "sending", !.scores = scores,
                                    !.calls = Append(@, SendCall(cy.target_chat_id,
                                                 message.value, PyStr("HTML")))]
            ELSE [cy EXCEPT !.pc = "sending", !.scores = scores,
                            !.calls = Append(@, SendCall(cy.target_chat_id,
                                                         ERROR_MESSAGE, PyNone))]

\* Variant of send_leaderboard_sent that sends once more after a failure.
send_leaderboard_sent_retry(cy, outcome) ==
    IF outcome = "ok"
    THEN [cy EXCEPT !.pc = "done", !.send_result = "ok",
                    !.log = IF Truthy(cy.scores) THEN Append(@, "Leaderboard sent") ELSE @]
    ELSE IF Len(cy.calls) < 2
    THEN [cy EXCEPT !.pc = "sending", !.send_result = "failed",
                    !.calls = Append(@, cy.calls[1])]
    ELSE [cy EXCEPT !.pc = "done", !.send_result = "failed"]

\* send_leaderboard from the end of send_message to its return: the except
\* clauses log the exception and the function ends.
send_leaderboard_sent(cy, outcome) ==
    IF outcome = "ok"
    THEN [cy EXCEPT !.pc = "done", !.send_result = "ok",
                    !.log = IF Truthy(cy.scores) THEN Append(@, "Leaderboard sent") ELSE @]
    ELSE [cy EXCEPT !.pc = "done", !.send_result = "failed",
                    !.log = Append(@, IF Truthy(cy.scores)
                                      THEN "Error sending message"
                                      ELSE "Error sending error message")]

Init ==
    /\ BOT_TOKEN \in TokenValues
    /\ CHAT_ID \in ChatIdValues
    /\ mainpc = "init"
    /\ handlers = {}
    /\ job = NoJob
    /\ now = 0
    /\ fireTimes = <<>>
    /\ cycles = EmptyBag
    /\ mainlog = <<>>
    /\ callArg = <<>>
    /\ callRet = NotCalled
    /\ callPc = "unused"

\* Variant of main that does not check CHAT_ID.
main_no_chat_check ==
    /\ mainpc = "init"
    /\ IF ~Truthy(BOT_TOKEN)
       THEN /\ mainlog' = Append(mainlog, "Please set BOT_TOKEN environment variable!")
            /\ mainpc' = "refused"
            /\ UNCHANGED <<handlers, job>>
       ELSE /\ handlers' = {"start", "leaderboard"}
            /\ job' = [scheduled |-> TRUE, interval |-> POST_INTERVAL,
                       first |-> FIRST_DELAY, next_run |-> now + FIRST_DELAY]
            /\ mainlog' = mainlog \o <<"Bot started!", "Posting to chat ID">>
            /\ mainpc' = "serving"
    /\ UNCHANGED <<BOT_TOKEN, CHAT_ID, now, fireTimes, cycles, callArg, callRet, callPc>>

\* main(): refuses to start without BOT_TOKEN or CHAT_ID, else registers the
\* handlers, schedules the repeating job and starts polling.
main ==
    /\ mainpc = "init"
    /\ IF ~Truthy(BOT_TOKEN)
       THEN /\ mainlog' = Append(mainlog, "Please set BOT_TOKEN environment variable!")
            /\ mainpc' = "refused"
            /\ UNCHANGED <<handlers, job>>
       ELSE IF ~Truthy(CHAT_ID)
       THEN /\ mainlog' = Append(mainlog, "Please set CHAT_ID environment variable!")
            /\ mainpc' = "refused"
            /\ UNCHANGED <<handlers, job>>
       ELSE /\ handlers' = {"start", "leaderboard"}
            /\ job' = [scheduled |-> TRUE, interval |-> POST_INTERVAL,
                       first |-> FIRST_DELAY, next_run |-> now + FIRST_DELAY]
            /\ mainlog' = mainlog \o <<"Bot started!", "Posting to chat ID">>
            /\ mainpc' = "serving"
    /\ UNCHANGED <<BOT_TOKEN, CHAT_ID, now, fireTimes, cycles, callArg, callRet, callPc>>

\* Time passes, never beyond the job's next due time.
Tick ==
    /\ mainpc = "serving"
    /\ Len(fireTimes) < MaxFirings
    /\ now < job.next_run
    /\ \E t \in {now + TickStep, job.next_run} :
          /\ t <= job.next_run
          /\ now' = t
    /\ UNCHANGED <<botVars, callArg, callRet, callPc>>

\* Variant of leaderboard_command that passes the chat id as it is.
leaderboard_command_raw_id(chat) ==
    /\ mainpc = "serving"
    /\ "leaderboard" \in handlers
    /\ BagCardinality(cycles) < MaxCycles
    /\ cycles' = cycles (+) One(send_leaderboard_begin("command", chat, PyInt(chat),
                                   <<"Leaderboard command received">>))
    /\ UNCHANGED <<BOT_TOKEN, CHAT_ID, mainpc, handlers, job, now, fireTimes, mainlog,
                   callArg, callRet, callPc>>

\* Variant of leaderboard_command that starts the job's interval anew.
leaderboard_command_reschedules(chat) ==
    /\ mainpc = "serving"
    /\ "leaderboard" \in handlers
    /\ BagCardinality(cycles) < MaxCycles
    /\ cycles' = cycles (+) One(send_leaderboard_begin("command", chat, Str(chat),
                                   <<"Leaderboard command received">>))
    /\ job' = [job EXCEPT !.next_run = now + job.interval]
    /\ UNCHANGED <<BOT_TOKEN, CHAT_ID, mainpc, handlers, now, fireTimes, mainlog,
                   callArg, callRet, callPc>>

\* leaderboard_command(update, context) for a command sent in chat `chat`.
leaderboard_command(chat) ==
    /\ mainpc = "serving"
    /\ "leaderboard" \in handlers
    /\ BagCardinality(cycles) < MaxCycles
    /\ cycles' = cycles (+) One(send_leaderboard_begin("command", chat, Str(chat),
                                   <<"Leaderboard command received">>))
    /\ UNCHANGED <<BOT_TOKEN, CHAT_ID, mainpc, handlers, job, now, fireTimes, mainlog,
                   callArg, callRet, callPc>>

\* post_leaderboard_job(context), run by the job queue when the job is due.
post_leaderboard_job ==
    /\ mainpc = "serving"
    /\ job.scheduled
    /\ now = job.next_run
    /\ Len(fireTimes) < MaxFirings
    /\ BagCardinality(cycles) < MaxCycles
    /\ fireTimes' = Append(fireTimes, now)
    /\ job' = [job EXCEPT !.next_run = @ + job.interval]
    /\ cycles' = cycles (+) One(send_leaderboard_begin("timer", 0, PyNone,
                                   <<"Running scheduled leaderboard post">>))
    /\ UNCHANGED <<BOT_TOKEN, CHAT_ID, mainpc, handlers, now, mainlog,
                   callArg, callRet, callPc>>

\* The API answers the request of cycle cy.
FetchReturns(cy) ==
    /\ cy.pc = "fetching"
    /\ \E response \in ApiResponses :
          cycles' = Replace(cy, send_leaderboard_fetched(cy, fetch_leaderboard(response), now))
    /\ UNCHANGED <<BOT_TOKEN, CHAT_ID, mainpc, handlers, job, now, fireTimes, mainlog,
                   callArg, callRet, callPc>>

\* send_message of cycle cy ends.
SendReturns(cy) ==
    /\ cy.pc = "sending"
    /\ \E outcome \in SendOutcomes :
          cycles' = Replace(cy, send_leaderboard_sent(cy, outcome))
    /\ UNCHANGED <<BOT_TOKEN, CHAT_ID, mainpc, handlers, job, now, fireTimes, mainlog,
                   callArg, callRet, callPc>>

\* send_leaderboard returns, or its exception reaches the caller: the
\* invocation's frame is gone.
Leave(cy) ==
    /\ cy.pc \in {"done", "raised"}
    /\ cycles' = cycles (-) One(cy)
    /\ UNCHANGED <<BOT_TOKEN, CHAT_ID, mainpc, handlers, job, now, fireTimes, mainlog,
                   callArg, callRet, callPc>>

Next ==
    \/ main
    \/ Tick
    \/ \E chat \in Chats : leaderboard_command(chat)
    \/ post_leaderboard_job
    \/ \E cy \in BagToSet(cycles) : FetchReturns(cy)
    \/ \E cy \in BagToSet(cycles) : SendReturns(cy)
    \/ \E cy \in BagToSet(cycles) : Leave(cy)

Spec == Init /\ [][Next]_vars

(***************************************************************************)
(* Properties.                                                             *)
(***************************************************************************)
\* The value of a string of decimal digits, the separators skipped.
RECURSIVE DigitsValue(_, _)
DigitsValue(chars, acc) ==
    IF chars = <<>> THEN acc
    ELSE IF Head(chars) = "," THEN DigitsValue(Tail(chars), acc)
    ELSE DigitsValue(Tail(chars),
           10 * acc + (CHOOSE d \in 0..9 : DigitChars[d + 1] = Head(chars)))

\* A separator stands at every fourth place counted from the right, and
\* nowhere else.
GroupedByThousands(chars) ==
    /\ chars # <<>>
    /\ \A k \in 1..Len(chars) :
         (chars[k] = ",") <=> (k > 1 /\ (Len(chars) - k + 1) % 4 = 0)

LinesOfKind(message, kind) == SelectSeq(message, LAMBDA l : l.kind = kind)

IsValidSnapshot(scores) ==
    /\ Len(scores) > 0
    /\ \A k \in 1..Len(scores) : scores[k] \in ValidEntries

\* What the fetcher's contract requires of a response for a snapshot.
FetchSucceeds(response) ==
    /\ response.net = "ok"
    /\ response.status = 200
    /\ response.body.kind = "json"
    /\ response.body.data.tag = "dict"
    /\ "success" \in response.body.data.keys
    /\ response.body.data.success = PyBool(TRUE)
    /\ "topScores" \in response.body.data.keys
    /\ response.body.data.topScores.tag = "list"
    /\ response.body.data.topScores.items # <<>>

\* C2: fetch_leaderboard never raises; it returns the response's topScores,
\* unchanged, exactly when the status is 200, the body parses, success is
\* true and topScores is non-empty, and returns None in every other case.
C2_FetchContract ==
    callPc # "ready" =>
        /\ callPc = "returned"
        /\ callRet.kind = "return"
        /\ IF FetchSucceeds(callArg)
           THEN callRet.value = callArg.body.data.topScores
           ELSE callRet.value = NoneList

C2_Witness ==
    /\ callPc = "returned"
    /\ FetchSucceeds(callArg)
    /\ Len(callRet.value.items) = 2

\* After a call with a valid non-empty snapshot: one rank line per entry, in
\* the snapshot's order, numbered from 1, with the entry's score grouped by
\* thousands, and the timestamp line last.
C9_RankLinesState ==
    (callPc # "ready" /\ IsValidSnapshot(callArg)) =>
        /\ callPc = "returned"
        /\ LET message == callRet.value
               ranks == LinesOfKind(message, "rank")
           IN /\ Len(ranks) = Len(callArg)
              /\ \A k \in 1..Len(callArg) :
                    /\ ranks[k].idx = k
                    /\ DigitsValue(ranks[k].game_score, 0) = callArg[k].gameScore.i
                    /\ GroupedByThousands(ranks[k].game_score)
              /\ \A k \in 1..Len(callArg) :
                    /\ message[3 * k].kind = "rank"
                    /\ message[3 * k].idx = k
              /\ message[Len(message)].kind = "timestamp"
              /\ Len(LinesOfKind(message, "timestamp")) = 1

\* C9: for a valid non-empty snapshot the message holds one rank line per
\* entry, in the snapshot's order, line i with rank number i and entry i's
\* score, and ends with its only timestamp line; the call leaves the
\* snapshot as it was.
C9_RankLines == []C9_RankLinesState /\ [][callArg' = callArg]_vars

C9_Witness ==
    /\ callPc = "returned"
    /\ IsValidSnapshot(callArg)
    /\ Len(callArg) = 2
    /\ callArg[1].gameScore.i = 1000000
    /\ callArg[2].gameScore.i = 500

HasNoName(entry) == "xUsername" \notin entry.keys \/ entry.xUsername = PyNone

\* C10 as stated: an entry whose xUsername is missing or null renders
\* "Anonymous", every other entry renders "@" and its name.
C10_AsStated ==
    (callPc = "returned" /\ IsValidSnapshot(callArg)) =>
        LET names == LinesOfKind(callRet.value, "name")
        IN \A k \in 1..Len(callArg) :
              IF HasNoName(callArg[k])
              THEN names[k].username = <<"Anonymous">>
              ELSE names[k].username = <<"@", callArg[k].xUsername.s>>

\* C10 amended: an entry whose xUsername is missing, null or the empty
\* string renders "Anonymous"; an entry with a non-empty xUsername renders
\* "@" and that name; every entry renders one of the two.
C10_Username ==
    (callPc = "returned" /\ IsValidSnapshot(callArg)) =>
        LET names == LinesOfKind(callRet.value, "name")
        IN /\ Len(names) = Len(callArg)
           /\ \A k \in 1..Len(callArg) :
                IF HasNoName(callArg[k]) \/ callArg[k].xUsername = PyStr("")
                THEN names[k].username = <<"Anonymous">>
                ELSE names[k].username = <<"@", callArg[k].xUsername.s>>

C10_Witness ==
    /\ callPc = "returned"
    /\ Len(callArg) = 2
    /\ callArg[1] = DictEntry({"gameScore", "xUsername"}, PyInt(1000000), PyStr("alice"))
    /\ callArg[2] = DictEntry({"gameScore", "xUsername"}, PyInt(500), PyNone)
    /\ LinesOfKind(callRet.value, "name")[1].username = <<"@", "alice">>
    /\ LinesOfKind(callRet.value, "name")[2].username = <<"Anonymous">>

InProgress == BagToSet(cycles)

\* The chat a cycle has to address: the commanding chat, or the default one.
ExpectedTarget(cy) ==
    IF cy.trigger = "command" THEN PyStr(ToString(cy.chat)) ELSE CHAT_ID

\* The message shows every entry of the snapshot: its rank, score and name.
ShowsAllEntries(message, items) ==
    LET ranks == LinesOfKind(message, "rank")
        names == LinesOfKind(message, "name")
    IN /\ Len(ranks) = Len(items)
       /\ Len(names) = Len(items)
       /\ \A k \in 1..Len(items) :
            /\ ranks[k].idx = k
            /\ DigitsValue(ranks[k].game_score, 0) = items[k].gameScore.i
            /\ names[k].username \in {<<"Anonymous">>, <<"@", items[k].xUsername.s>>}

\* C1: a publish cycle makes one send_message call: after a fetch that gave
\* nothing, whatever its cause, the fixed fallback text without parse mode;
\* after a valid non-empty snapshot, the formatted message with all entries
\* and parse mode HTML.  Both kinds of cycle reach their end.
C1_OneSend ==
    \A cy \in InProgress :
        /\ Len(cy.calls) <= 1
        /\ cy.pc = "fetching" => cy.calls = <<>>
        /\ cy.pc = "done" => Len(cy.calls) = 1
        /\ (cy.pc \in {"sending", "done"} /\ cy.scores = NoneList) =>
              cy.calls = <<SendCall(cy.target_chat_id, ERROR_MESSAGE, PyNone)>>
        /\ (cy.pc \in {"sending", "done"} /\ cy.scores # NoneList) =>
              /\ Len(cy.calls) = 1
              /\ cy.calls[1].parse_mode = PyStr("HTML")
              /\ ShowsAllEntries(cy.calls[1].text, cy.scores.items)
        /\ (cy.scores = NoneList \/ IsValidSnapshot(cy.scores.items)) => cy.pc # "raised"

C1_Witness ==
    \E a, b \in InProgress :
        /\ a.pc = "done" /\ a.scores = NoneList /\ a.calls[1].text = ERROR_MESSAGE
        /\ b.pc = "done" /\ Len(b.scores.items) = 2
        /\ b.calls[1].parse_mode = PyStr("HTML")

\* C3: send_leaderboard never ends with an exception, whatever the fetch
\* and the send give.
C3_NeverRaises == \A cy \in InProgress : cy.pc # "raised"

\* C4: a failed send_message ends the cycle: its exception is caught and
\* logged, and the cycle has made one call, to its own target, and one fetch.
C4_NoRetry ==
    \A cy \in InProgress :
        /\ cy.fetches = 1
        /\ cy.send_result = "failed" =>
              /\ cy.pc = "done"
              /\ Len(cy.calls) = 1
              /\ cy.calls[1].chat_id = cy.target_chat_id
              /\ cy.log[Len(cy.log)] \in {"Error sending message", "Error sending error message"}

C4_Witness ==
    \E a, b \in InProgress :
        /\ a.send_result = "failed" /\ a.scores = NoneList
        /\ b.send_result = "failed" /\ b.scores # NoneList

\* C5: every call of a cycle started by /leaderboard in chat c goes to c, and
\* every call of a cycle started by the timer goes to CHAT_ID.
C5_Target ==
    \A cy \in InProgress :
        /\ cy.target_chat_id = ExpectedTarget(cy)
        /\ \A k \in 1..Len(cy.calls) : cy.calls[k].chat_id = ExpectedTarget(cy)

C5_Witness ==
    /\ CHAT_ID = PyStr("-1001")
    /\ \E a, t \in InProgress :
          /\ a.trigger = "command" /\ a.chat = 0 /\ a.pc = "done"
          /\ a.calls[1].chat_id = PyStr("0")
          /\ t.trigger = "timer" /\ t.pc = "done"
          /\ t.calls[1].chat_id = PyStr("-1001")

\* What a cycle has done follows from its own target and its own fetch
\* result, as if it ran alone: one fetch; one send once the fetch is over,
\* none only when its own snapshot made the formatter raise.
C6_OwnState ==
    \A cy \in InProgress :
        /\ cy.fetches = 1
        /\ Len(cy.calls) = IF cy.pc \in {"sending", "done"} THEN 1 ELSE 0
        /\ cy.pc = "raised" =>
              (cy.scores # NoneList /\ ~IsValidSnapshot(cy.scores.items))
        /\ \A k \in 1..Len(cy.calls) :
              /\ cy.calls[k].chat_id = ExpectedTarget(cy)
              /\ IF cy.scores = NoneList
                 THEN cy.calls[k].text = ERROR_MESSAGE
                 ELSE ShowsAllEntries(cy.calls[k].text, cy.scores.items)

\* C6: while cycles overlap, each makes its own single fetch and its own
\* single send, to its own target and with the text of its own fetch result,
\* and a step of one cycle changes no other cycle.
C6_Independent ==
    /\ []C6_OwnState
    /\ [][/\ BagCardinality(cycles (-) cycles') <= 1
          /\ BagCardinality(cycles' (-) cycles) <= 1]_vars

C6_Witness ==
    \E a, b \in InProgress :
        /\ a.trigger = "timer" /\ a.pc = "done" /\ a.scores # NoneList
        /\ a.calls[1].chat_id = CHAT_ID
        /\ b.trigger = "command" /\ b.pc = "done" /\ b.scores = NoneList
        /\ b.calls[1].chat_id = PyStr("0")

\* The runs so far were at 10, 3610, ... seconds, the next is due one
\* interval after the last, and no timer cycle has a chat id.
C7_TimerState ==
    /\ \A k \in 1..Len(fireTimes) : fireTimes[k] = 10 + (k - 1) * 3600
    /\ job.scheduled => /\ job.next_run = 10 + Len(fireTimes) * 3600
                        /\ now <= job.next_run
    /\ \A cy \in InProgress : cy.trigger = "timer" => cy.chat_id = PyNone

\* C7: the timer's k-th run is at 10 + (k - 1) * 3600 seconds, without a
\* chat id; only a run of the job moves its next due time, so a command
\* delays, skips or resets none.
C7_Timer ==
    /\ []C7_TimerState
    /\ [][(mainpc = "serving" /\ (job' # job \/ fireTimes' # fireTimes)) =>
            /\ now = job.next_run
            /\ fireTimes' = Append(fireTimes, now)
            /\ \E cy \in BagToSet(cycles') :
                  /\ cy.trigger = "timer"
                  /\ CopiesIn(cy, cycles') = CopiesIn(cy, cycles) + 1]_vars

C7_Witness ==
    /\ fireTimes = <<10, 3610>>
    /\ \E cy \in InProgress :
          /\ cy.trigger = "command"
          /\ cy.scores # NoneList
          /\ Len(cy.calls) = 1
          /\ LET text == cy.calls[1].text
             IN /\ text[Len(text)].utc > 10
                /\ text[Len(text)].utc < 3610

\* C8: without BOT_TOKEN or without CHAT_ID main logs an error and ends:
\* no handler, no job, no publish cycle; it serves only with both.
C8_RefusesToStart ==
    /\ mainpc = "serving" => (Truthy(BOT_TOKEN) /\ Truthy(CHAT_ID))
    /\ (mainpc # "init" /\ Truthy(BOT_TOKEN) /\ Truthy(CHAT_ID)) =>
          /\ mainpc = "serving"
          /\ handlers = {"start", "leaderboard"}
          /\ job.scheduled
    /\ (mainpc # "init" /\ ~(Truthy(BOT_TOKEN) /\ Truthy(CHAT_ID))) =>
          /\ mainpc = "refused"
          /\ Len(mainlog) = 1
    /\ mainpc # "serving" =>
          /\ handlers = {}
          /\ ~job.scheduled
          /\ fireTimes = <<>>
          /\ cycles = EmptyBag

C8_Witness ==
    /\ mainpc = "refused"
    /\ BOT_TOKEN = PyStr("123:abc")
    /\ CHAT_ID = PyStr("")
    /\ mainlog = <<"Please set CHAT_ID environment variable!">>

====
